---- MODULE Spec2Model ----
(***************************************************************************)
(* A state-machine model of the schwift interpreter core                   *)
(* (src/src/state/mod.rs): the Environment (State), the statement executor *)
(* (execute), the statement-sequence runner (run), function invocation     *)
(* (call_function) and the native-library bridge (dylib_load).             *)
(*                                                                         *)
(* The recursion run -> execute -> exec_if/exec_while/catch/call_function  *)
(* -> run of the Rust code is unfolded into an explicit control stack of   *)
(* frames; `ret` is the SwErResult handed from a finished callee to the    *)
(* frame below it.  One Environment exists per activation: `envs` is the   *)
(* stack of State values (the top-level State first, then one child State  *)
(* per interpreter function call in progress).                             *)
(***************************************************************************)
EXTENDS Integers, Sequences, FiniteSets, TLC

\* ------------------------------------------------------------------ bounds
\* Longest top-level statement sequence handed to run.
MaxProgLen == 2
\* Most library handles opened (Library::new succeeding) in one behaviour.
MaxLibs == 2

\* ------------------------------------------------------------------ values
\* Option::None, for last_return and for symbols.get(name) of an unbound name.
None == [t |-> "None"]

IntV(n) == [t |-> "Int", i |-> n]
BoolV(b) == [t |-> "Bool", b |-> b]
\* A string is held as the sequence of its Unicode scalars (s.chars()).
StrV(cs) == [t |-> "Str", s |-> cs]
ListV(l) == [t |-> "List", l |-> l]
FunctionV(params, body) == [t |-> "Function", params |-> params, body |-> body]
\* A native function: the raw symbol `sym` resolved from library handle `lib`.
NativeV(lib, sym) == [t |-> "NativeFunction", lib |-> lib, sym |-> sym]

\* Value::get_type: the type name carried by errors.
get_type(v) == v.t

\* SwResult<T> = Result<T, ErrorKind>
OkV(v) == [ok |-> TRUE, val |-> v]
ErrK(k) == [ok |-> FALSE, kind |-> k]

\* ------------------------------------------------------------------ ErrorKind
UnknownVariable(n) == [k |-> "UnknownVariable", name |-> n]
IndexUnindexable(ty) == [k |-> "IndexUnindexable", ty |-> ty]
IndexOutOfBounds(len, index) == [k |-> "IndexOutOfBounds", len |-> len, index |-> index]
UnexpectedType(e, a) == [k |-> "UnexpectedType", expected |-> e, actual |-> a]
InvalidArguments(n, given, want) ==
  [k |-> "InvalidArguments", name |-> n, given |-> given, want |-> want]
NoReturn(n) == [k |-> "NoReturn", name |-> n]
IOError == [k |-> "IOError"]
NonFunctionCallInDylib(stmt) == [k |-> "NonFunctionCallInDylib", stmt |-> stmt]
InvalidBinaryExpression(l, r, op) ==
  [k |-> "InvalidBinaryExpression", lhs |-> l, rhs |-> r, op |-> op]

\* SwErResult<()> = Result<(), Error>; Error::new(kind, place).
NoRet == [r |-> "none"]
Ok == [r |-> "ok"]
Error(kind, place) == [r |-> "err", kind |-> kind, place |-> place]

\* ------------------------------------------------------------------ usize
\* `i as usize` on a 64-bit target.  A usize is held as four 16-bit limbs,
\* most significant first, so that 2^64 + i is representable.
Limb == 65536

FromNat(n) == << 0, 0, n \div Limb, n % Limb >>

\* as_usize taking the magnitude of a negative integer.
as_usize_magnitude(i) == FromNat(IF i >= 0 THEN i ELSE 0 - i)

\* Sign extension of a negative integer: 2^64 + i.
as_usize(i) ==
  IF i >= 0 THEN FromNat(i)
  ELSE LET u == (i + 2147483647) + 1
       IN  << Limb - 1, Limb - 1, (Limb \div 2) + (u \div Limb), u % Limb >>

\* a < b on usize values.
UsizeLt(a, b) ==
  \E j \in 1..4 : a[j] < b[j] /\ \A h \in 1..(j - 1) : a[h] = b[h]

\* The natural number a usize below 2^31 stands for.
ToNat(u) == u[3] * Limb + u[4]

\* ------------------------------------------------------------------ AST
\* Expression (produced by the parser).  Expressions of the model are
\* call-free: a call's result is observed through callResult instead.
Lit(v) == [e |-> "Lit", val |-> v]
Var(n) == [e |-> "Var", name |-> n]
Index(n, idx) == [e |-> "Index", name |-> n, idx |-> idx]
Sub(l, r) == [e |-> "Sub", lhs |-> l, rhs |-> r]
Gt(l, r) == [e |-> "Gt", lhs |-> l, rhs |-> r]

\* Statement: a StatementKind plus its source location `loc`.
Assignment(loc, n, exp) == [kind |-> "Assignment", loc |-> loc, name |-> n, exp |-> exp]
Delete(loc, n) == [kind |-> "Delete", loc |-> loc, name |-> n]
ListNew(loc, n) == [kind |-> "ListNew", loc |-> loc, name |-> n]
ListAppend(loc, n, exp) == [kind |-> "ListAppend", loc |-> loc, name |-> n, exp |-> exp]
ListAssign(loc, n, idx, exp) ==
  [kind |-> "ListAssign", loc |-> loc, name |-> n, idx |-> idx, exp |-> exp]
ListDelete(loc, n, idx) == [kind |-> "ListDelete", loc |-> loc, name |-> n, idx |-> idx]
PrintStmt(loc, exp) == [kind |-> "Print", loc |-> loc, exp |-> exp]
PrintNoNl(loc, exp) == [kind |-> "PrintNoNl", loc |-> loc, exp |-> exp]
Input(loc, n) == [kind |-> "Input", loc |-> loc, name |-> n]
If(loc, c, body, else_body) ==
  [kind |-> "If", loc |-> loc, cond |-> c, body |-> body, else_body |-> else_body]
While(loc, c, body) == [kind |-> "While", loc |-> loc, cond |-> c, body |-> body]
Catch(loc, try_block, catch_block) ==
  [kind |-> "Catch", loc |-> loc, body |-> try_block, catch_block |-> catch_block]
Function(loc, n, params, body) ==
  [kind |-> "Function", loc |-> loc, name |-> n, params |-> params, body |-> body]
Return(loc, exp) == [kind |-> "Return", loc |-> loc, exp |-> exp]
FunctionCall(loc, n, args) == [kind |-> "FunctionCall", loc |-> loc, name |-> n, args |-> args]
DylibLoad(loc, path, functions) ==
  [kind |-> "DylibLoad", loc |-> loc, path |-> path, functions |-> functions]

\* ------------------------------------------------------------------ State
\* The names a program may bind.
Names == {"x", "l", "s", "f", "g", "h", "u"}

\* State::default(): no binding, no pending return, no library.  `opened`,
\* `mark` and `tmark` are history fields: the handles dylib_load opened in
\* this State (kept or dropped), the value of a Return executed in it inside
\* an If inside a While, and the value of a Return executed in it inside the
\* try_block of a Catch of a While body.
default ==
  [symbols |-> [n \in Names |-> None], last_return |-> None,
   libraries |-> << >>, opened |-> {}, mark |-> None, tmark |-> None]

\* State::get
get(st, name) ==
  IF st.symbols[name] # None THEN OkV(st.symbols[name])
  ELSE ErrK(UnknownVariable(name))

RECURSIVE evaluate(_, _)
RECURSIVE list_index(_, _, _)

\* State::list_index
list_index(st, list_name, exp) ==
  LET inner == evaluate(exp, st) IN
  IF ~inner.ok THEN inner
  ELSE
    LET symbol == st.symbols[list_name]
        v == inner.val
    IN
    IF symbol = None THEN ErrK(UnknownVariable(list_name))
    ELSE IF symbol.t \in {"List", "Str"} THEN
      IF v.t = "Int" THEN
        LET index == as_usize(v.i)
            items == IF symbol.t = "List" THEN symbol.l ELSE symbol.s
        IN
        IF UsizeLt(index, FromNat(Len(items))) THEN
          IF symbol.t = "List" THEN OkV(items[ToNat(index) + 1])
          ELSE OkV(StrV(<< items[ToNat(index) + 1] >>))
        ELSE ErrK(IndexOutOfBounds(Len(items), index))
      ELSE ErrK(UnexpectedType("Int", get_type(v)))
    ELSE ErrK(IndexUnindexable(get_type(symbol)))

\* Expression::evaluate: a literal is itself, a variable is looked up with
\* State::get, an index expression goes through State::list_index, and the
\* binary operators are the integer ones of the value domain.
evaluate(exp, st) ==
  CASE exp.e = "Lit" -> OkV(exp.val)
    [] exp.e = "Var" -> get(st, exp.name)
    [] exp.e = "Index" -> list_index(st, exp.name, exp.idx)
    [] exp.e \in {"Sub", "Gt"} ->
         LET l == evaluate(exp.lhs, st) IN
         IF ~l.ok THEN l
         ELSE LET r == evaluate(exp.rhs, st) IN
              IF ~r.ok THEN r
              ELSE IF l.val.t = "Int" /\ r.val.t = "Int" THEN
                     IF exp.e = "Sub" THEN OkV(IntV(l.val.i - r.val.i))
                     ELSE OkV(BoolV(l.val.i > r.val.i))
                   ELSE ErrK(InvalidBinaryExpression(get_type(l.val), get_type(r.val), exp.e))

\* Expression::try_bool
try_bool(exp, st) ==
  LET v == evaluate(exp, st) IN
  IF ~v.ok THEN v
  ELSE IF v.val.t = "Bool" THEN v
  ELSE ErrK(UnexpectedType("Bool", get_type(v.val)))

\* Expression::try_int
try_int(exp, st) ==
  LET v == evaluate(exp, st) IN
  IF ~v.ok THEN v
  ELSE IF v.val.t = "Int" THEN v
  ELSE ErrK(UnexpectedType("Int", get_type(v.val)))

\* A statement-level operation returns the SwResult and the State it leaves.
Done(res, st) == [res |-> res, st |-> st]

\* Map::insert on symbols
insert(st, name, v) == [st EXCEPT !.symbols[name] = v]

\* assign dropping the binding of its name when the expression has no value.
assign_clobber(st, name, exp) ==
  LET v == evaluate(exp, st) IN
  IF ~v.ok THEN Done(v, [st EXCEPT !.symbols[name] = None])
  ELSE Done(OkV(None), [st EXCEPT !.symbols[name] = v.val])

\* assign keeping the binding a name already has: the first write wins.
assign_once(st, name, exp) ==
  LET v == evaluate(exp, st) IN
  IF ~v.ok THEN Done(v, st)
  ELSE IF st.symbols[name] # None THEN Done(OkV(None), st)
  ELSE Done(OkV(None), [st EXCEPT !.symbols[name] = v.val])

\* State::assign
assign(st, name, exp) ==
  LET v == evaluate(exp, st) IN
  IF ~v.ok THEN Done(v, st)
  ELSE Done(OkV(None), insert(st, name, v.val))

\* State::delete
delete(st, name) ==
  IF st.symbols[name] # None
  THEN Done(OkV(None), [st EXCEPT !.symbols[name] = None])
  ELSE Done(ErrK(UnknownVariable(name)), st)

\* State::get_mut
get_mut(st, name) == get(st, name)

\* State::get_list
get_list(st, name) ==
  LET value == get_mut(st, name) IN
  IF ~value.ok THEN value
  ELSE IF value.val.t = "List" THEN value
  ELSE ErrK(IndexUnindexable(get_type(value.val)))

\* list_append putting the value in front of the list.
list_append_front(st, list_name, append_exp) ==
  LET to_append == evaluate(append_exp, st) IN
  IF ~to_append.ok THEN Done(to_append, st)
  ELSE LET list == get_list(st, list_name) IN
       IF ~list.ok THEN Done(list, st)
       ELSE Done(OkV(None),
                 [st EXCEPT !.symbols[list_name] =
                    ListV(<< to_append.val >> \o list.val.l)])

\* State::list_append
list_append(st, list_name, append_exp) ==
  LET to_append == evaluate(append_exp, st) IN
  IF ~to_append.ok THEN Done(to_append, st)
  ELSE LET list == get_list(st, list_name) IN
       IF ~list.ok THEN Done(list, st)
       ELSE Done(OkV(None),
                 insert(st, list_name, ListV(Append(list.val.l, to_append.val))))

\* State::get_list_element: the SwResult holds the position of the element.
get_list_element(st, name, index_exp) ==
  LET i == try_int(index_exp, st) IN
  IF ~i.ok THEN i
  ELSE
    LET index == as_usize(i.val.i)
        value == get_mut(st, name)
    IN
    IF ~value.ok THEN value
    ELSE IF value.val.t = "List" THEN
      LET len == Len(value.val.l) IN
      IF UsizeLt(index, FromNat(len)) THEN OkV(ToNat(index) + 1)
      ELSE ErrK(IndexOutOfBounds(len, index))
    ELSE ErrK(IndexUnindexable(get_type(value.val)))

\* list_assign putting the value in front of the element instead of in its
\* place.
list_assign_insert(st, list_name, index_exp, assign_exp) ==
  LET to_assign == evaluate(assign_exp, st) IN
  IF ~to_assign.ok THEN Done(to_assign, st)
  ELSE LET element == get_list_element(st, list_name, index_exp) IN
       IF ~element.ok THEN Done(element, st)
       ELSE LET l == st.symbols[list_name].l IN
            Done(OkV(None),
                 [st EXCEPT !.symbols[list_name].l =
                    SubSeq(l, 1, element.val - 1) \o << to_assign.val >>
                      \o SubSeq(l, element.val, Len(l))])

\* State::list_assign
list_assign(st, list_name, index_exp, assign_exp) ==
  LET to_assign == evaluate(assign_exp, st) IN
  IF ~to_assign.ok THEN Done(to_assign, st)
  ELSE LET element == get_list_element(st, list_name, index_exp) IN
       IF ~element.ok THEN Done(element, st)
       ELSE Done(OkV(None),
                 [st EXCEPT !.symbols[list_name].l[element.val] = to_assign.val])

\* A removal that drops the last element, whatever the position.
Remove_last(l, pos) == [j \in 1..(Len(l) - 1) |-> l[j]]

\* Vec::remove(index): the elements after it move down by one.
Remove(l, pos) == [j \in 1..(Len(l) - 1) |-> IF j < pos THEN l[j] ELSE l[j + 1]]

\* State::list_delete
list_delete(st, list_name, index_exp) ==
  LET index_value == evaluate(index_exp, st) IN
  IF ~index_value.ok THEN Done(index_value, st)
  ELSE IF index_value.val.t = "Int" THEN
    LET index == as_usize(index_value.val.i)
        list == get_list(st, list_name)
    IN
    IF ~list.ok THEN Done(list, st)
    ELSE IF UsizeLt(index, FromNat(Len(list.val.l))) THEN
      Done(OkV(None), insert(st, list_name, ListV(Remove(list.val.l, ToNat(index) + 1))))
    ELSE Done(ErrK(IndexOutOfBounds(Len(list.val.l), index)), st)
  ELSE Done(ErrK(UnexpectedType("Int", get_type(index_value.val))), st)

\* ------------------------------------------------------------------ dylib
\* The libraries of the file system: one loadable library and its exports.
LibExists(lib_path) == lib_path = "liba"
Exports(lib_path) == IF lib_path = "liba" THEN {"f", "g"} ELSE {}

RECURSIVE dylib_bind(_, _, _, _, _)
\* The loop of State::dylib_load over `functions`, from position j on, with
\* the library opened as handle `dylib`.  Leaving the loop with an error drops
\* `dylib`; finishing it pushes `dylib` onto libraries.
dylib_bind(st, lib_path, dylib, functions, j) ==
  IF j > Len(functions)
  THEN Done(OkV(None), [st EXCEPT !.libraries = Append(@, dylib)])
  ELSE
    LET statement == functions[j] IN
    IF statement.kind = "FunctionCall" THEN
      IF statement.name \in Exports(lib_path)
      THEN dylib_bind(insert(st, statement.name, NativeV(dylib, statement.name)),
                      lib_path, dylib, functions, j + 1)
      ELSE Done(ErrK(IOError), st)
    ELSE Done(ErrK(NonFunctionCallInDylib(statement)), st)

\* State::dylib_load, `dylib` being the handle Library::new returns.
dylib_load(st, lib_path, functions, dylib) ==
  IF ~LibExists(lib_path) THEN Done(ErrK(IOError), st)
  ELSE dylib_bind([st EXCEPT !.opened = @ \cup {dylib}], lib_path, dylib, functions, 1)

\* ------------------------------------------------------------------ machine
VARIABLES
  envs,        \* the States alive: the top-level one, then one per call in progress
  stack,       \* the control stack: run / if / while / catch / call frames
  ret,         \* the SwErResult returned to the top frame, NoRet while it executes
  output,      \* what print and print_no_nl wrote to standard output
  callResult,  \* the SwResult<Value> of the last call_function that ran a body
  nextLib,     \* the next library handle
  unloaded,    \* handles whose Library was dropped with its State
  origin,      \* the Error as built where the last failure occurred
  lastOp       \* what the last step did

vars == << envs, stack, ret, output, callResult, nextLib, unloaded, origin, lastOp >>

cur == envs[Len(envs)]
top == stack[Len(stack)]
SetCur(st) == [envs EXCEPT ![Len(envs)] = st]
Push(fr) == Append(stack, fr)
Pop == SubSeq(stack, 1, Len(stack) - 1)

\* A run over `statements`: pc is the position of the statement in execution;
\* done and after are history: the positions executed so far, and for each
\* one that returned Ok whether last_return was set when it returned.
RunFrame(statements) ==
  [f |-> "run", stmts |-> statements, pc |-> 1, done |-> << >>, after |-> << >>]

\* The top frame is a run about to execute a statement of the given kind.
Executing(kind) ==
  /\ ret = NoRet
  /\ stack # << >>
  /\ top.f = "run"
  /\ top.pc <= Len(top.stmts)
  /\ top.stmts[top.pc].kind = kind

statement == top.stmts[top.pc]

\* The run frame with the statement in execution noted as executed.
Begun == [top EXCEPT !.done = Append(@, top.pc)]

\* History of one step: the operation, the result it consumed, whether the
\* State it ran in was marked, the height of the control stack, for a step of
\* a run the kind of its statement and how many statements follow it, the
\* State, the top frame and the length of the output before the step, and the
\* program and bindings the behaviour started from.
Op(name) ==
  [op |-> name, in |-> ret, marked |-> cur.mark # None, depth |-> Len(stack),
   kind |-> IF top.f = "run" /\ top.pc <= Len(top.stmts) THEN statement.kind ELSE "",
   left |-> IF top.f = "run" THEN Len(top.stmts) - top.pc ELSE 0,
   tmarked |-> cur.tmark # None, pre |-> cur, fr |-> top, out |-> Len(output),
   start |-> lastOp.start]

\* try_nop_error!: Ok(()) or Error::new(err, statement.clone()).
try_nop_error(res, stmt) == IF res.ok THEN Ok ELSE Error(res.kind, stmt)

\* A statement that runs no nested sequence: its operation gives `d`.
Simple(d) ==
  /\ envs' = SetCur(d.st)
  /\ ret' = try_nop_error(d.res, statement)
  /\ origin' = IF d.res.ok THEN origin ELSE Error(d.res.kind, statement)
  /\ stack' = [stack EXCEPT ![Len(stack)] = Begun]
  /\ lastOp' = Op("exec")

\* ------------------------------------------------------------------ execute
\* StatementKind::Assignment
execute_Assignment ==
  /\ Executing("Assignment")
  /\ Simple(assign(cur, statement.name, statement.exp))
  /\ UNCHANGED << output, callResult, nextLib, unloaded >>

\* StatementKind::Delete
execute_Delete ==
  /\ Executing("Delete")
  /\ Simple(delete(cur, statement.name))
  /\ UNCHANGED << output, callResult, nextLib, unloaded >>

\* StatementKind::ListNew
execute_ListNew ==
  /\ Executing("ListNew")
  /\ Simple(Done(OkV(None), insert(cur, statement.name, ListV(<< >>))))
  /\ UNCHANGED << output, callResult, nextLib, unloaded >>

\* StatementKind::ListAppend
execute_ListAppend ==
  /\ Executing("ListAppend")
  /\ Simple(list_append(cur, statement.name, statement.exp))
  /\ UNCHANGED << output, callResult, nextLib, unloaded >>

\* StatementKind::ListAssign
execute_ListAssign ==
  /\ Executing("ListAssign")
  /\ Simple(list_assign(cur, statement.name, statement.idx, statement.exp))
  /\ UNCHANGED << output, callResult, nextLib, unloaded >>

\* StatementKind::ListDelete
execute_ListDelete ==
  /\ Executing("ListDelete")
  /\ Simple(list_delete(cur, statement.name, statement.idx))
  /\ UNCHANGED << output, callResult, nextLib, unloaded >>

\* State::print and State::print_no_nl: the value written, and whether a line
\* terminator follows it.
print(st, exp, nl) ==
  LET x == evaluate(exp, st) IN
  IF ~x.ok THEN [res |-> x, out |-> << >>]
  ELSE [res |-> OkV(None), out |-> << [val |-> x.val, nl |-> nl] >>]

\* StatementKind::Print
execute_Print ==
  /\ Executing("Print")
  /\ LET p == print(cur, statement.exp, TRUE) IN
     /\ Simple(Done(p.res, cur))
     /\ output' = output \o p.out
  /\ UNCHANGED << callResult, nextLib, unloaded >>

\* StatementKind::PrintNoNl
execute_PrintNoNl ==
  /\ Executing("PrintNoNl")
  /\ LET p == print(cur, statement.exp, FALSE) IN
     /\ Simple(Done(p.res, cur))
     /\ output' = output \o p.out
  /\ UNCHANGED << callResult, nextLib, unloaded >>

\* The lines standard input may deliver (read_line keeps the terminator; the
\* empty line is end of input).
StdinLines == { << "a", "\n" >>, << " ", "b", " ", "\n" >>, << >> }
Whitespace == {" ", "\n", "\t"}

RECURSIVE trim_start(_)
trim_start(cs) ==
  IF cs # << >> /\ Head(cs) \in Whitespace THEN trim_start(Tail(cs)) ELSE cs

RECURSIVE trim_end(_)
trim_end(cs) ==
  IF cs # << >> /\ cs[Len(cs)] \in Whitespace
  THEN trim_end(SubSeq(cs, 1, Len(cs) - 1)) ELSE cs

\* str::trim
trim(cs) == trim_end(trim_start(cs))

\* State::input, `read` being what io::stdin().read_line gave.
input(st, name, read) ==
  IF ~read.ok THEN Done(ErrK(IOError), st)
  ELSE Done(OkV(None), insert(st, name, StrV(trim(read.val))))

\* StatementKind::Input
execute_Input ==
  /\ Executing("Input")
  /\ \/ \E line \in StdinLines : Simple(input(cur, statement.name, OkV(line)))
     \/ Simple(input(cur, statement.name, ErrK(IOError)))
  /\ UNCHANGED << output, callResult, nextLib, unloaded >>

\* StatementKind::Function
execute_Function ==
  /\ Executing("Function")
  /\ Simple(Done(OkV(None),
                 insert(cur, statement.name, FunctionV(statement.params, statement.body))))
  /\ UNCHANGED << output, callResult, nextLib, unloaded >>

\* The Return in execution is inside an If inside a While of a function body.
InIfInWhile ==
  /\ Len(envs) > 1
  /\ Len(stack) >= 4
  /\ stack[Len(stack) - 1].f = "if"
  /\ stack[Len(stack) - 2].f = "run"
  /\ stack[Len(stack) - 3].f = "while"

\* The Return in execution is inside the try_block of a Catch that is a
\* statement of a While body.
InTryInWhile ==
  /\ Len(stack) >= 4
  /\ stack[Len(stack) - 1].f = "catch"
  /\ stack[Len(stack) - 1].phase = "try"
  /\ stack[Len(stack) - 2].f = "run"
  /\ stack[Len(stack) - 3].f = "while"

\* StatementKind::Return
execute_Return ==
  /\ Executing("Return")
  /\ LET val == evaluate(statement.exp, cur) IN
     IF ~val.ok THEN Simple(Done(val, cur))
     ELSE Simple(Done(OkV(None),
                      [cur EXCEPT !.last_return = val.val,
                                  !.mark = IF InIfInWhile THEN val.val ELSE @,
                                  !.tmark = IF InTryInWhile THEN val.val ELSE @]))
  /\ UNCHANGED << output, callResult, nextLib, unloaded >>

\* StatementKind::DylibLoad
execute_DylibLoad ==
  /\ Executing("DylibLoad")
  /\ nextLib <= MaxLibs
  /\ Simple(dylib_load(cur, statement.path, statement.functions, nextLib))
  /\ nextLib' = IF LibExists(statement.path) THEN nextLib + 1 ELSE nextLib
  /\ UNCHANGED << output, callResult, unloaded >>

\* ------------------------------------------------------------------ control flow
\* Option<Vec<Statement>> of an If
NoElse == [some |-> FALSE]
Else(body) == [some |-> TRUE, body |-> body]

\* A statement that returns without running a nested sequence.
Fails(kind) ==
  /\ ret' = Error(kind, statement)
  /\ origin' = Error(kind, statement)
  /\ stack' = [stack EXCEPT ![Len(stack)] = Begun]

Skips ==
  /\ ret' = Ok
  /\ origin' = origin
  /\ stack' = [stack EXCEPT ![Len(stack)] = Begun]

\* A statement that runs the nested sequence `body` under frame `fr`.
Enters(fr, body) ==
  /\ ret' = NoRet
  /\ origin' = origin
  /\ stack' = [stack EXCEPT ![Len(stack)] = Begun] \o << fr, RunFrame(body) >>

\* State::exec_if, up to the nested run.
exec_if ==
  /\ Executing("If")
  /\ LET x == evaluate(statement.cond, cur) IN
     IF ~x.ok THEN Fails(x.kind)
     ELSE IF x.val.t = "Bool" THEN
       IF x.val.b THEN Enters([f |-> "if", stmt |-> statement], statement.body)
       ELSE IF statement.else_body.some
            THEN Enters([f |-> "if", stmt |-> statement], statement.else_body.body)
            ELSE Skips
     ELSE Fails(UnexpectedType("Bool", get_type(x.val)))
  /\ lastOp' = Op("exec")
  /\ UNCHANGED << envs, output, callResult, nextLib, unloaded >>

\* State::exec_if, after the nested run: `self.run(..)?; Ok(())`.
exec_if_return ==
  /\ ret.r \in {"ok", "err"}
  /\ stack # << >>
  /\ top.f = "if"
  /\ stack' = Pop
  /\ lastOp' = Op("if_return")
  /\ UNCHANGED << envs, ret, output, callResult, nextLib, unloaded, origin >>

\* A While in progress; as history, the State and the length of the output
\* when it began, and the number of runs of its body begun.
WhileFrame(stmt) ==
  [f |-> "while", stmt |-> stmt, entry |-> [st |-> cur, out |-> Len(output)],
   iters |-> 1]

\* exec_while entering the body before the first test of a condition that is
\* a Bool, as a do-while would.
exec_while_untested ==
  /\ Executing("While")
  /\ LET condition == try_bool(statement.cond, cur) IN
     IF ~condition.ok THEN Fails(condition.kind)
     ELSE Enters(WhileFrame(statement), statement.body)
  /\ lastOp' = Op("exec")
  /\ UNCHANGED << envs, output, callResult, nextLib, unloaded >>

\* State::exec_while, the first test of the condition.
exec_while ==
  /\ Executing("While")
  /\ LET condition == try_bool(statement.cond, cur) IN
     IF ~condition.ok THEN Fails(condition.kind)
     ELSE IF condition.val.b
          THEN Enters(WhileFrame(statement), statement.body)
          ELSE Skips
  /\ lastOp' = Op("exec")
  /\ UNCHANGED << envs, output, callResult, nextLib, unloaded >>

\* exec_while without its test of last_return.
WhileStops_never(st) == FALSE

\* exec_while: `if self.last_return.is_some() { return Ok(()) }`
WhileStops(st) == st.last_return # None

\* State::exec_while, after one run of the body.
exec_while_iter ==
  /\ ret.r \in {"ok", "err"}
  /\ stack # << >>
  /\ top.f = "while"
  /\ IF ret.r = "err"
     THEN /\ stack' = Pop
          /\ lastOp' = Op("while_return")
          /\ UNCHANGED << ret, origin >>
     ELSE IF WhileStops(cur)
     THEN /\ stack' = Pop
          /\ ret' = Ok
          /\ lastOp' = Op("while_return")
          /\ UNCHANGED origin
     ELSE LET condition == try_bool(top.stmt.cond, cur) IN
          /\ lastOp' = Op("retest")
          /\ IF ~condition.ok
             THEN /\ stack' = Pop
                  /\ ret' = Error(condition.kind, top.stmt)
                  /\ origin' = Error(condition.kind, top.stmt)
             ELSE IF condition.val.b
             THEN /\ stack' = [stack EXCEPT ![Len(stack)].iters = @ + 1]
                               \o << RunFrame(top.stmt.body) >>
                  /\ ret' = NoRet
                  /\ UNCHANGED origin
             ELSE /\ stack' = Pop
                  /\ ret' = Ok
                  /\ UNCHANGED origin
  /\ UNCHANGED << envs, output, callResult, nextLib, unloaded >>

\* State::catch, up to the run of try_block.
catch ==
  /\ Executing("Catch")
  /\ Enters([f |-> "catch", stmt |-> statement, phase |-> "try"], statement.body)
  /\ lastOp' = Op("exec")
  /\ UNCHANGED << envs, output, callResult, nextLib, unloaded >>

\* catch running catch_block whatever try_block returned.
CatchFalls_always(r) == TRUE

\* catch falling back on some kinds of error only.
CatchFalls_some(r) == r.r = "err" /\ r.kind.k # "IOError"

\* catch: `Err(_) => self.run(catch)`: whether the result of try_block makes
\* catch_block run.
CatchFalls(r) == r.r = "err"

\* State::catch, after the run of try_block.
catch_try_return ==
  /\ ret.r \in {"ok", "err"}
  /\ stack # << >>
  /\ top.f = "catch"
  /\ top.phase = "try"
  /\ IF CatchFalls(ret)
     THEN /\ stack' = [stack EXCEPT ![Len(stack)].phase = "catch"]
                        \o << RunFrame(top.stmt.catch_block) >>
          /\ ret' = NoRet
     ELSE /\ stack' = Pop
          /\ ret' = ret
  /\ lastOp' = Op("catch_try_return")
  /\ UNCHANGED << envs, output, callResult, nextLib, unloaded, origin >>

\* State::catch, after the run of catch_block: its result is the result.
catch_return ==
  /\ ret.r \in {"ok", "err"}
  /\ stack # << >>
  /\ top.f = "catch"
  /\ top.phase = "catch"
  /\ stack' = Pop
  /\ lastOp' = Op("catch_return")
  /\ UNCHANGED << envs, ret, output, callResult, nextLib, unloaded, origin >>

\* ------------------------------------------------------------------ run
\* run stopping after every statement, whatever it was and left.
RunStops_always(stmt, st) == TRUE

\* run stopping at a Return of its own sequence only.
RunStops_own(stmt, st) == stmt.kind = "Return"

\* run: the statement just executed was a Return, or last_return is set.
RunStops(stmt, st) == stmt.kind = "Return" \/ st.last_return # None

\* State::run, after execute returned for the statement at pc.
run_next ==
  /\ ret.r \in {"ok", "err"}
  /\ stack # << >>
  /\ top.f = "run"
  /\ IF ret.r = "err"
     THEN /\ stack' = Pop
          /\ ret' = ret
     ELSE LET noted == [top EXCEPT !.after = Append(@, cur.last_return # None)] IN
          IF RunStops(statement, cur)
          THEN /\ stack' = Pop
               /\ ret' = Ok
          ELSE /\ stack' = [stack EXCEPT ![Len(stack)] = [noted EXCEPT !.pc = @ + 1]]
               /\ ret' = NoRet
  /\ lastOp' = Op("run_next")
  /\ UNCHANGED << envs, output, callResult, nextLib, unloaded, origin >>

\* State::run, past the last statement: Ok(()).
run_end ==
  /\ ret = NoRet
  /\ stack # << >>
  /\ top.f = "run"
  /\ top.pc > Len(top.stmts)
  /\ stack' = Pop
  /\ ret' = Ok
  /\ lastOp' = Op("run_end")
  /\ UNCHANGED << envs, output, callResult, nextLib, unloaded, origin >>

\* ------------------------------------------------------------------ call_function
RECURSIVE eval_args(_, _, _)
\* call_function: `for x in args { call_args.push(x.evaluate(self)?) }`,
\* from position j on.
eval_args(args, st, j) ==
  IF j > Len(args) THEN OkV(<< >>)
  ELSE LET x == evaluate(args[j], st) IN
       IF ~x.ok THEN x
       ELSE LET rest == eval_args(args, st, j + 1) IN
            IF ~rest.ok THEN rest ELSE OkV(<< x.val >> \o rest.val)

RECURSIVE bind_params(_, _, _, _)
\* call_function: `for (name, arg) in params.iter().zip(call_args)`.
bind_params(st, params, call_args, j) ==
  IF j > Len(params) \/ j > Len(call_args) THEN st
  ELSE bind_params(insert(st, params[j], call_args[j]), params, call_args, j + 1)

\* call_function running the body in a copy of the caller's State.
child_state_inherit(caller, params, call_args) ==
  bind_params([caller EXCEPT !.last_return = None, !.libraries = << >>],
              params, call_args, 1)

\* call_function: the child State of a call, made from Self::default().
child_state(caller, params, call_args) == bind_params(default, params, call_args, 1)

\* call_function: what is decided before a body runs.  "enter" runs the body
\* of an interpreter function in `child`, "native" calls a native function,
\* "fail" returns the ErrorKind `kind`.
call_function(st, name, args) ==
  LET call_args == eval_args(args, st, 1) IN
  IF ~call_args.ok THEN [to |-> "fail", kind |-> call_args.kind]
  ELSE
    LET callee == get(st, name) IN
    IF ~callee.ok THEN [to |-> "fail", kind |-> callee.kind]
    ELSE IF callee.val.t = "NativeFunction"
      THEN [to |-> "native", funk |-> callee.val, args |-> call_args.val]
    ELSE IF callee.val.t = "Function" THEN
      IF Len(args) # Len(callee.val.params)
      THEN [to |-> "fail",
            kind |-> InvalidArguments(name, Len(args), Len(callee.val.params))]
      ELSE [to |-> "enter", body |-> callee.val.body, args |-> call_args.val,
            child |-> child_state(st, callee.val.params, call_args.val)]
    ELSE [to |-> "fail", kind |-> UnexpectedType("Function", get_type(callee.val))]

Range(q) == { q[j] : j \in 1..Len(q) }

\* The library of handle h is loaded: some State alive holds it.
Loaded(h) == \E d \in 1..Len(envs) : h \in Range(envs[d].libraries)

\* What call_function returned: the SwResult, and as history the name called,
\* the mark of the child State, the libraries dropped with it, the caller's
\* State when the call began.
Called(res, name, child, saved) ==
  [res |-> res, name |-> name, mark |-> child.mark,
   dropped |-> Range(child.libraries), saved |-> saved]

\* StatementKind::FunctionCall: call_function up to the run of the body; a
\* call that runs no body returns at once.
execute_FunctionCall ==
  /\ Executing("FunctionCall")
  /\ LET c == call_function(cur, statement.name, statement.args) IN
     CASE c.to = "fail" ->
            /\ Fails(c.kind)
            /\ callResult' = Called(ErrK(c.kind), statement.name, default, cur)
            /\ UNCHANGED envs
       [] c.to = "native" ->
            \* funk.call(&call_args): the library's code decides the result; with
            \* the library unloaded the call is undefined and may also crash.
            /\ \/ /\ Skips
                  /\ callResult' = Called(OkV(IntV(0)), statement.name, default, cur)
               \/ /\ Fails(IOError)
                  /\ callResult' = Called(ErrK(IOError), statement.name, default, cur)
               \/ /\ ~Loaded(c.funk.lib)
                  /\ ret' = [r |-> "crash"]
                  /\ stack' = [stack EXCEPT ![Len(stack)] = Begun]
                  /\ UNCHANGED << origin, callResult >>
            /\ UNCHANGED envs
       [] c.to = "enter" ->
            /\ Enters([f |-> "call", stmt |-> statement, saved |-> cur, args |-> c.args],
                      c.body)
            /\ envs' = Append(envs, c.child)
            /\ UNCHANGED callResult
  /\ lastOp' = Op("exec")
  /\ UNCHANGED << output, nextLib, unloaded >>

\* call_function after the run of the body, and the FunctionCall statement's
\* wrapping of its result; the child State is dropped.
call_return ==
  /\ ret.r \in {"ok", "err"}
  /\ stack # << >>
  /\ top.f = "call"
  /\ LET child_state_now == cur
         name == top.stmt.name
         last_ret == child_state_now.last_return
         res == IF ret.r = "err" THEN ErrK(ret.kind)
                ELSE IF last_ret # None THEN OkV(last_ret)
                ELSE ErrK(NoReturn(name))
     IN
     /\ callResult' = Called(res, name, child_state_now, top.saved)
     /\ ret' = try_nop_error(res, top.stmt)
     /\ origin' = IF ret.r = "ok" /\ last_ret = None
                  THEN Error(NoReturn(name), top.stmt) ELSE origin
     /\ unloaded' = unloaded \cup Range(child_state_now.libraries)
  /\ envs' = SubSeq(envs, 1, Len(envs) - 1)
  /\ stack' = Pop
  /\ lastOp' = Op("call_return")
  /\ UNCHANGED << output, nextLib >>

\* ------------------------------------------------------------------ programs
\* Largest index value, and largest magnitude of a negative one, bound to x
\* in an initial State.
MaxIndex == 2
MaxNeg == 1

X == Var("x")
Num(n) == Lit(IntV(n))

\* fn g(x) { while x > 0 { if 2 > x { return x }; x = x - 1 }; delete x }
gBody ==
  << While(31, Gt(X, Num(0)),
           << If(32, Gt(Num(2), X), << Return(33, X) >>, NoElse),
              Assignment(34, "x", Sub(X, Num(1))) >>),
     Delete(35, "x") >>

\* fn h() { dylib "liba" { f() }; return f }
hBody ==
  << DylibLoad(41, "liba", << FunctionCall(42, "f", << >>) >>),
     Return(43, Var("f")) >>

\* The statements top-level programs are made of.
Pool ==
  << Assignment(1, "x", Num(1)),
     Assignment(2, "x", Sub(X, Num(1))),
     PrintStmt(3, Index("l", X)),
     PrintStmt(4, Index("s", X)),
     Delete(5, "x"),
     ListNew(6, "l"),
     ListAppend(7, "l", X),
     ListAppend(8, "x", Num(1)),
     ListAssign(9, "l", X, Num(9)),
     ListDelete(10, "l", X),
     PrintStmt(11, X),
     PrintNoNl(12, Var("l")),
     Input(13, "x"),
     If(14, Gt(X, Num(0)), << Return(15, X) >>, Else(<< Assignment(16, "x", Num(2)) >>)),
     While(17, Gt(X, Num(0)),
           << PrintStmt(18, X), Assignment(19, "x", Sub(X, Num(1))) >>),
     While(20, Lit(BoolV(TRUE)),
           << Catch(21, << Return(22, X), Delete(63, "x") >>,
                        << Assignment(23, "x", Num(1)) >>),
              PrintStmt(24, X) >>),
     Catch(25, << Delete(26, "x"), ListAppend(27, "l", Num(1)) >>,
               << Assignment(28, "x", Num(5)) >>),
     Catch(29, << Delete(30, "x") >>, << Delete(36, "x") >>),
     Function(37, "g", << "x" >>, gBody),
     Return(38, X),
     FunctionCall(39, "g", << X >>),
     FunctionCall(40, "g", << >>),
     FunctionCall(44, "g", << Var("u"), Num(1) >>),
     FunctionCall(45, "g", << Lit(BoolV(TRUE)) >>),
     FunctionCall(46, "h", << >>),
     FunctionCall(47, "f", << X >>),
     FunctionCall(48, "l", << X >>),
     DylibLoad(49, "liba", << FunctionCall(50, "f", << >>) >>),
     DylibLoad(51, "liba", << FunctionCall(52, "f", << >>), FunctionCall(53, "u", << >>) >>),
     DylibLoad(54, "liba", << FunctionCall(55, "f", << >>), Delete(56, "x") >>),
     DylibLoad(57, "nolib", << FunctionCall(58, "f", << >>), Delete(64, "x") >>),
     ListAssign(65, "s", X, Num(9)),
     ListDelete(66, "s", X),
     Catch(59, << DylibLoad(60, "liba",
                            << FunctionCall(61, "f", << >>), FunctionCall(62, "u", << >>) >>) >>,
               << >>) >>

\* A top-level statement at position j of its program: its location is its own.
Placed(stmt, j) == [stmt EXCEPT !.loc = j * 100 + @]

Programs ==
  { [j \in 1..Len(pick) |-> Placed(Pool[pick[j]], j)] :
      pick \in UNION { [1..n -> 1..Len(Pool)] : n \in 0..MaxProgLen } }

\* The bindings of the top-level State when run is called: none (State::new),
\* or those an earlier script left, x being an integer.
Preset(i) ==
  [n \in Names |->
     CASE n = "x" -> IntV(i)
       [] n = "l" -> ListV(<< IntV(10), IntV(20) >>)
       [] n = "s" -> StrV(<< "a", "e" >>)
       [] n = "g" -> FunctionV(<< "x" >>, gBody)
       [] n = "h" -> FunctionV(<< >>, hBody)
       [] OTHER -> None]

InitSymbols == { default.symbols } \cup { Preset(i) : i \in (0 - MaxNeg)..MaxIndex }

Init ==
  /\ \E syms \in InitSymbols : \E prog \in Programs :
       /\ envs = << [default EXCEPT !.symbols = syms] >>
       /\ stack = << RunFrame(prog) >>
       /\ lastOp = [op |-> "init", in |-> NoRet, marked |-> FALSE, depth |-> 0,
                    kind |-> "", left |-> 0, tmarked |-> FALSE, pre |-> default,
                    fr |-> RunFrame(prog), out |-> 0,
                    start |-> [prog |-> prog, symbols |-> syms, runs |-> 1,
                               pending |-> FALSE]]
  /\ ret = NoRet
  /\ output = << >>
  /\ callResult = [res |-> None, name |-> "", mark |-> None, dropped |-> {}, saved |-> None]
  /\ nextLib = 1
  /\ unloaded = {}
  /\ origin = NoRet

Next ==
  \/ execute_Assignment
  \/ execute_Delete
  \/ execute_ListNew
  \/ execute_ListAppend
  \/ execute_ListAssign
  \/ execute_ListDelete
  \/ execute_Print
  \/ execute_PrintNoNl
  \/ execute_Input
  \/ execute_Function
  \/ execute_Return
  \/ execute_DylibLoad
  \/ execute_FunctionCall
  \/ exec_if
  \/ exec_if_return
  \/ exec_while
  \/ exec_while_iter
  \/ catch
  \/ catch_try_return
  \/ catch_return
  \/ call_return
  \/ run_next
  \/ run_end

Spec == Init /\ [][Next]_vars

\* ------------------------------------------------------------------ later runs
\* Largest number of calls of run on the top-level State.
MaxRuns == 2

\* The statements of the sequences of the later calls: an Assignment, a
\* Delete, a Print, the countdown While, a Return and a call of g.
RerunPool == << Pool[1], Pool[5], Pool[11], Pool[15], Pool[20], Pool[21] >>

Reruns ==
  { [j \in 1..Len(pick) |-> Placed(RerunPool[pick[j]], j)] :
      pick \in UNION { [1..n -> 1..Len(RerunPool)] : n \in 0..MaxProgLen } }

\* State::run called again, by the owner of the top-level State, after an
\* earlier call returned Ok or Err: `pub fn run(&mut self, statements)`.  The
\* history starts afresh with the call: `start` holds its sequence, the
\* bindings it began with, its number among the calls and whether last_return
\* was set when it began.
run_again ==
  /\ stack = << >>
  /\ ret.r \in {"ok", "err"}
  /\ lastOp.start.runs < MaxRuns
  /\ \E prog \in Reruns :
       /\ stack' = << RunFrame(prog) >>
       /\ lastOp' = [op |-> "run", in |-> ret, marked |-> cur.mark # None, depth |-> 0,
                     kind |-> "", left |-> 0, tmarked |-> cur.tmark # None, pre |-> cur,
                     fr |-> RunFrame(prog), out |-> Len(output),
                     start |-> [prog |-> prog, symbols |-> cur.symbols,
                                runs |-> lastOp.start.runs + 1,
                                pending |-> cur.last_return # None]]
  /\ ret' = NoRet
  /\ origin' = NoRet
  /\ callResult' = [res |-> None, name |-> "", mark |-> None, dropped |-> {},
                    saved |-> None]
  /\ UNCHANGED << envs, output, nextLib, unloaded >>

NextAgain == Next \/ run_again

\* The program run once, then further sequences run on the same State.
SpecAgain == Init /\ [][NextAgain]_vars

\* The interpreter is one sequential loop: a step that can be taken is taken.
FairSpec == Spec /\ WF_vars(Next)

\* ------------------------------------------------------------------ properties
\* The statement whose execute just returned to the run frame on top.
Executed(kind) ==
  /\ lastOp.op = "exec"
  /\ lastOp.kind = kind
  /\ ret # NoRet
  /\ stack # << >>
  /\ top.f = "run"

\* C1: in every run in progress the statements executed so far are those at
\* positions 1, 2, ..., k in that order, and every executed statement that has
\* a successor executed after it was not a Return and did not leave
\* last_return set when it returned.
C1_RunInOrderUntilReturn ==
  \A d \in 1..Len(stack) :
    stack[d].f = "run" =>
      \A j \in 1..Len(stack[d].done) :
        /\ stack[d].done[j] = j
        /\ j > 1 => /\ stack[d].stmts[j - 1].kind # "Return"
                    /\ Len(stack[d].after) >= j - 1
                    /\ stack[d].after[j - 1] = FALSE

\* A run has just stopped after a nested statement left last_return set, with
\* statements of its sequence left unexecuted.
C1_Witness ==
  /\ lastOp.op = "run_next"
  /\ lastOp.in = Ok
  /\ lastOp.kind \in {"If", "While", "Catch"}
  /\ lastOp.left > 0
  /\ Len(stack) < lastOp.depth
  /\ cur.last_return # None

\* C2: once a Return has executed inside an If inside a While of a function
\* body, no statement is executed and no While condition is tested again in
\* that State, and the call returns Ok with exactly the value of the Return.
C2_ReturnInIfInWhile ==
  /\ lastOp.op \in {"exec", "retest"} => ~lastOp.marked
  /\ callResult.mark # None => callResult.res = OkV(callResult.mark)

\* A call has returned whose body executed a Return inside an If inside a While.
C2_Witness ==
  /\ lastOp.op = "call_return"
  /\ callResult.mark # None

\* C3: when try_block has returned, catch_block starts if and only if the
\* result was an error; with Ok the Catch returns Ok at once; and the result
\* of the Catch after catch_block ran is the result of catch_block.
C3_CatchFallsBack ==
  /\ lastOp.op = "catch_try_return" =>
       IF lastOp.in.r = "err"
       THEN /\ ret = NoRet
            /\ Len(stack) = lastOp.depth + 1
            /\ top = RunFrame(stack[Len(stack) - 1].stmt.catch_block)
       ELSE /\ ret = Ok
            /\ Len(stack) = lastOp.depth - 1
  /\ lastOp.op = "catch_return" =>
       /\ ret = lastOp.in
       /\ Len(stack) = lastOp.depth - 1
  /\ \A d \in 1..Len(stack) :
       stack[d].f = "catch" /\ d < Len(stack) =>
         stack[d + 1].stmts = IF stack[d].phase = "try" THEN stack[d].stmt.body
                              ELSE stack[d].stmt.catch_block

\* A Catch has returned the error of its catch_block, run after try_block failed.
C3_Witness ==
  /\ lastOp.op = "catch_return"
  /\ ret.r = "err"

\* C4: every native function a dylib_load of a State bound in its symbols has
\* its library in the libraries of that State.
C4_LibraryRetained ==
  \A d \in 1..Len(envs) : \A n \in Names :
    LET v == envs[d].symbols[n] IN
    (v.t = "NativeFunction" /\ v.lib \in envs[d].opened)
      => v.lib \in Range(envs[d].libraries)

RECURSIVE NativeLibs(_)
\* The library handles of the native functions reachable from a value.
NativeLibs(v) ==
  IF v.t = "NativeFunction" THEN {v.lib}
  ELSE IF v.t = "List" THEN UNION { NativeLibs(v.l[j]) : j \in 1..Len(v.l) }
  ELSE {}

\* C5: no native function of a library dropped with its State is reachable
\* from a State alive or from the value the call returned.
C5_LibraryOutlivesValues ==
  /\ \A d \in 1..Len(envs) : \A n \in Names :
       NativeLibs(envs[d].symbols[n]) \cap unloaded = {}
  /\ (callResult.res # None /\ callResult.res.ok) =>
       NativeLibs(callResult.res.val) \cap callResult.dropped = {}

\* C6: an Error in flight is the Error built where the failure occurred: same
\* kind, same statement.
C6_ErrorUnchanged == ret.r = "err" => ret = origin

\* C7: a FunctionCall of an interpreter function with a number of arguments
\* other than its parameter count fails with InvalidArguments(name, given,
\* expected), whatever the arguments.
C7_ArityCheckedFirst ==
  Executed("FunctionCall") =>
    LET callee == cur.symbols[statement.name] IN
    (callee.t = "Function" /\ Len(statement.args) # Len(callee.params)) =>
      ret = Error(InvalidArguments(statement.name, Len(statement.args),
                                   Len(callee.params)), statement)

\* C10: a FunctionCall of an unbound name fails with UnknownVariable(name)
\* attributed to the FunctionCall statement, whatever the arguments.
C10_UnboundCallee ==
  Executed("FunctionCall") =>
    (cur.symbols[statement.name] = None =>
       ret = Error(UnknownVariable(statement.name), statement))

\* `print name[x]` has just been executed with name bound to a List or a
\* string and x to an integer: list_index ran on that container and index.
IndexedPrint ==
  /\ Executed("Print")
  /\ statement.exp.e = "Index"
  /\ statement.exp.idx = X
  /\ cur.symbols[statement.exp.name].t \in {"List", "Str"}
  /\ cur.symbols["x"].t = "Int"

Container == cur.symbols[statement.exp.name]
Items == IF Container.t = "List" THEN Container.l ELSE Container.s
\* Element j (from 0) of the container, as indexing returns it.
Element(j) == IF Container.t = "List" THEN Items[j + 1] ELSE StrV(<< Items[j + 1] >>)
Printed == output[Len(output)].val

\* C8, as claimed: for every integer i, i >= length fails with
\* IndexOutOfBounds(length, i) and i < length succeeds with element i.
C8_IndexAnyInteger ==
  IndexedPrint =>
    LET i == cur.symbols["x"].i
        len == Len(Items)
    IN
    /\ i >= len => ret = Error(IndexOutOfBounds(len, FromNat(i)), statement)
    /\ i < len => /\ ret = Ok
                  /\ i >= 0 => Printed = Element(i)

\* C8, amended: i >= length fails with IndexOutOfBounds(length, i); 0 <= i <
\* length succeeds with element i; a negative i fails with IndexOutOfBounds
\* carrying the length and the index 2^64 + i.
C8_IndexNonNegative ==
  IndexedPrint =>
    LET i == cur.symbols["x"].i
        len == Len(Items)
    IN
    /\ i >= len => ret = Error(IndexOutOfBounds(len, FromNat(i)), statement)
    /\ (0 <= i /\ i < len) => /\ ret = Ok
                              /\ output # << >>
                              /\ Printed = Element(i)
    /\ i < 0 => ret = Error(IndexOutOfBounds(len,
                              << Limb - 1, Limb - 1, Limb - 1, Limb + i >>), statement)

\* A List or a string has been indexed with a negative integer.
C8_Witness ==
  /\ IndexedPrint
  /\ cur.symbols["x"].i < 0
  /\ ret.r = "err"

\* The value params.zip(args) leaves bound to n: that of the last parameter
\* named n, none when no parameter is.
Bound(params, args, n) ==
  LET js == { j \in 1..Len(params) : params[j] = n } IN
  IF js = {} THEN None
  ELSE args[CHOOSE j \in js : \A h \in js : h <= j]

\* Two States with the same bindings, pending return and libraries.
Same(a, b) ==
  /\ a.symbols = b.symbols
  /\ a.last_return = b.last_return
  /\ a.libraries = b.libraries

\* The State the call frame at height d of the control stack was called from.
CallerIndex(d) == 1 + Cardinality({ e \in 1..(d - 1) : stack[e].f = "call" })

\* C9: the body of an interpreter function call starts in a State holding
\* exactly the parameters bound to the arguments evaluated in the caller, with
\* no pending return and no library; and the caller's bindings, pending return
\* and libraries are the same during the call and after it as before it.
C9_FreshChildCallerUntouched ==
  /\ ( /\ lastOp.op = "exec"
       /\ lastOp.kind = "FunctionCall"
       /\ ret = NoRet
       /\ Len(stack) >= 2
       /\ stack[Len(stack) - 1].f = "call" ) =>
       LET fr == stack[Len(stack) - 1]
           caller == envs[Len(envs) - 1]
           callee == caller.symbols[fr.stmt.name]
           values == [j \in 1..Len(fr.stmt.args) |-> evaluate(fr.stmt.args[j], caller).val]
       IN
       /\ \A n \in Names : cur.symbols[n] = Bound(callee.params, values, n)
       /\ cur.last_return = None
       /\ cur.libraries = << >>
  /\ \A d \in 1..Len(stack) :
       stack[d].f = "call" => Same(envs[CallerIndex(d)], stack[d].saved)
  /\ lastOp.op = "call_return" => Same(cur, callResult.saved)

\* A call has returned whose body loaded a library, the caller holding none.
C9_Witness ==
  /\ lastOp.op = "call_return"
  /\ callResult.dropped # {}
  /\ cur.libraries = << >>

\* ------------------------------------------------------------------ C11
\* The statement the last step of a run executed.
Stmt == lastOp.fr.stmts[lastOp.fr.pc]

\* The last step began a run of the body of a While: the first test of
\* exec_while or a later one.
BodyBegun ==
  /\ \/ lastOp.op = "exec" /\ lastOp.kind = "While"
     \/ lastOp.op = "retest"
  /\ ret = NoRet
  /\ Len(stack) > lastOp.depth

\* C11: every run of the body of a While begins at a step that evaluated the
\* condition, to true, in the State the body then runs in; and a While whose
\* condition is false at its first evaluation returns Ok with no run of its
\* body begun, the bindings and the pending return as they were before it.
C11_WhileTestsFirst ==
  /\ \A d \in 2..Len(stack) :
       ( /\ stack[d - 1].f = "while"
         /\ stack[d].f = "run"
         /\ stack[d].done = << >> ) =>
         /\ d = Len(stack)
         /\ BodyBegun
         /\ try_bool(stack[d - 1].stmt.cond, cur) = OkV(BoolV(TRUE))
         /\ cur = lastOp.pre
  /\ ( /\ lastOp.op = "exec"
       /\ lastOp.kind = "While"
       /\ try_bool(Stmt.cond, lastOp.pre) = OkV(BoolV(FALSE)) ) =>
       /\ ret = Ok
       /\ Len(stack) = lastOp.depth
       /\ top.f = "run"
       /\ cur.symbols = lastOp.pre.symbols
       /\ cur.last_return = lastOp.pre.last_return
       /\ Len(output) = lastOp.out

\* A While has returned at its first test, its condition false, in a State
\* that binds the variable of the condition.
C11_Witness ==
  /\ lastOp.op = "exec"
  /\ lastOp.kind = "While"
  /\ try_bool(Stmt.cond, lastOp.pre) = OkV(BoolV(FALSE))
  /\ lastOp.pre.symbols["x"] # None
  /\ ret = Ok
  /\ Len(stack) = lastOp.depth

\* ------------------------------------------------------------------ C12
\* C12: a call of an interpreter function whose body has run to its end
\* without error returns the value in the child's pending return when that is
\* set and fails with NoReturn(name) when it is not; and a call of a name
\* bound to a value that is neither an interpreter function nor a native one
\* fails with UnexpectedType.
C12_CallResult ==
  /\ (lastOp.op = "call_return" /\ lastOp.in = Ok) =>
       /\ callResult.res = IF lastOp.pre.last_return # None
                           THEN OkV(lastOp.pre.last_return)
                           ELSE ErrK(NoReturn(lastOp.fr.stmt.name))
       /\ ret = try_nop_error(callResult.res, lastOp.fr.stmt)
  /\ ( /\ lastOp.op = "exec"
       /\ lastOp.kind = "FunctionCall"
       /\ get_type(lastOp.pre.symbols[Stmt.name])
            \notin {"None", "Function", "NativeFunction"} ) =>
       /\ ret.r = "err"
       /\ ret.kind = UnexpectedType("Function", get_type(lastOp.pre.symbols[Stmt.name]))

\* ------------------------------------------------------------------ C13
\* C13: a DylibLoad whose block holds a statement that is not a FunctionCall
\* fails with NonFunctionCallInDylib, whatever its library path and whatever
\* the position of that statement in the block.
C13_NonCallRejected ==
  ( /\ lastOp.op = "exec"
    /\ lastOp.kind = "DylibLoad"
    /\ \E j \in 1..Len(Stmt.functions) : Stmt.functions[j].kind # "FunctionCall" ) =>
    /\ ret.r = "err"
    /\ ret.kind.k = "NonFunctionCallInDylib"

\* ------------------------------------------------------------------ C14
\* The program is made of Assignment and Print statements only.
OnlyAssignPrint(prog) ==
  \A j \in 1..Len(prog) : prog[j].kind \in {"Assignment", "Print"}

RECURSIVE Expected(_, _, _, _)
\* What statements j.. of such a program are to give, statement by statement:
\* an Assignment rebinds its name to the value of its expression under the
\* bindings b accumulated so far, a Print adds that value to the values
\* printed; the first expression without a value ends the program in error.
Expected(prog, j, b, printed) ==
  IF j > Len(prog) THEN [ok |-> TRUE, symbols |-> b, printed |-> printed]
  ELSE
    LET v == evaluate(prog[j].exp, [default EXCEPT !.symbols = b]) IN
    IF ~v.ok THEN [ok |-> FALSE, symbols |-> b, printed |-> printed]
    ELSE IF prog[j].kind = "Assignment"
    THEN Expected(prog, j + 1, [b EXCEPT ![prog[j].name] = v.val], printed)
    ELSE Expected(prog, j + 1, b, Append(printed, v.val))

\* C14: a program of Assignment and Print statements only, run from the empty
\* State or from any bindings, has printed when it ends the value of each
\* Print's expression under the bindings the Assignments before it
\* accumulated, the last write to a name winning, print by print and each
\* with its newline, and leaves those bindings; and a Print changes no
\* binding, pending return or library in any program.
C14_PrintsFollowAssignments ==
  /\ (stack = << >> /\ OnlyAssignPrint(lastOp.start.prog)) =>
       LET e == Expected(lastOp.start.prog, 1, lastOp.start.symbols, << >>) IN
       /\ Len(output) = Len(e.printed)
       /\ \A j \in 1..Len(output) : output[j] = [val |-> e.printed[j], nl |-> TRUE]
       /\ envs[1].symbols = e.symbols
       /\ (ret = Ok) = e.ok
  /\ (lastOp.op = "exec" /\ lastOp.kind = "Print") => cur = lastOp.pre

\* A program of Assignments and Prints has ended that started with x unbound
\* or bound to another value, assigned 1 to x last and then printed it.
C14_Witness ==
  /\ stack = << >>
  /\ ret = Ok
  /\ OnlyAssignPrint(lastOp.start.prog)
  /\ Len(lastOp.start.prog) = MaxProgLen
  /\ lastOp.start.prog[MaxProgLen - 1].kind = "Assignment"
  /\ lastOp.start.prog[MaxProgLen].kind = "Print"
  /\ lastOp.start.symbols["x"] # IntV(1)
  /\ output = << [val |-> IntV(1), nl |-> TRUE] >>

\* ------------------------------------------------------------------ C15
\* The While `while x > 0 { print x; x = x - 1 }`.
Countdown(stmt) ==
  /\ stmt.cond = Gt(X, Num(0))
  /\ Len(stmt.body) = 2
  /\ stmt.body[1].kind = "Print"
  /\ stmt.body[1].exp = X
  /\ stmt.body[2].kind = "Assignment"
  /\ stmt.body[2].name = "x"
  /\ stmt.body[2].exp = Sub(X, Num(1))

\* The State st binds x to a non-negative integer and has no pending return,
\* as after `x = n`.
CountsFrom(st) ==
  /\ get_type(st.symbols["x"]) = "Int"
  /\ st.symbols["x"].i >= 0
  /\ st.last_return = None

\* The last step returned from a While that had run its body.
WhileReturned ==
  /\ lastOp.op \in {"retest", "while_return"}
  /\ lastOp.fr.f = "while"
  /\ Len(stack) < lastOp.depth

\* The countdown is in progress, begun with x non-negative.
CountdownRunning ==
  \E d \in 1..Len(stack) :
    /\ stack[d].f = "while"
    /\ Countdown(stack[d].stmt)
    /\ CountsFrom(stack[d].entry.st)

\* The countdown has just returned Ok.
CountdownReturned ==
  WhileReturned /\ Countdown(lastOp.fr.stmt) /\ ret = Ok

\* The countdown never begins more than n runs of its body; when it returns
\* it returns Ok, at a test of its condition, with no pending return, after
\* exactly n runs of its body, having printed n, n - 1, ..., 1, one per line,
\* and leaving x = 0.
CountdownCounts ==
  /\ \A d \in 1..Len(stack) :
       ( /\ stack[d].f = "while"
         /\ Countdown(stack[d].stmt)
         /\ CountsFrom(stack[d].entry.st) ) =>
         stack[d].iters <= stack[d].entry.st.symbols["x"].i
  /\ (WhileReturned /\ Countdown(lastOp.fr.stmt) /\ CountsFrom(lastOp.fr.entry.st)) =>
       LET n == lastOp.fr.entry.st.symbols["x"].i
           from == lastOp.fr.entry.out
       IN
       /\ lastOp.op = "retest"
       /\ ret = Ok
       /\ cur.last_return = None
       /\ lastOp.fr.iters = n
       /\ cur.symbols["x"] = IntV(0)
       /\ Len(output) = from + n
       /\ \A j \in 1..n : output[from + j] = [val |-> IntV(n + 1 - j), nl |-> TRUE]
  /\ ( /\ lastOp.op = "exec"
       /\ lastOp.kind = "While"
       /\ Countdown(Stmt)
       /\ CountsFrom(lastOp.pre)
       /\ lastOp.pre.symbols["x"].i = 0 ) =>
       /\ ret = Ok
       /\ Len(stack) = lastOp.depth
       /\ cur.symbols["x"] = IntV(0)
       /\ cur.last_return = None
       /\ Len(output) = lastOp.out

\* C15: `while x > 0 { print x; x = x - 1 }` begun with x = n, n non-negative,
\* terminates: once in progress it returns Ok, and it does so after exactly n
\* runs of its body, with no pending return, having printed n, n - 1, ..., 1
\* and leaving x = 0; for n = 5 that is 5, 4, 3, 2, 1.
C15_CountdownTerminates ==
  []CountdownCounts /\ (CountdownRunning ~> CountdownReturned)

\* The countdown begun with x = 5 has returned, 5, 4, 3, 2, 1 printed.
C15_Witness ==
  /\ WhileReturned
  /\ Countdown(lastOp.fr.stmt)
  /\ lastOp.fr.entry.st.symbols["x"] = IntV(5)
  /\ lastOp.fr.entry.st.last_return = None
  /\ ret = Ok
  /\ LET from == lastOp.fr.entry.out IN
     /\ Len(output) = from + 5
     /\ \A j \in 1..5 : output[from + j].val = IntV(6 - j)

\* ------------------------------------------------------------------ C16
\* Index 2^64 + i, what `i as usize` is for a negative i of small magnitude.
Wrapped(i) == << Limb - 1, Limb - 1, Limb - 1, Limb + i >>

\* The last step executed a statement of the given kind on a name that was
\* bound, with an index that is an integer; and, where the statement has an
\* expression for a value, that expression has one.
Indexed(kind) ==
  /\ lastOp.op = "exec"
  /\ lastOp.kind = kind
  /\ lastOp.pre.symbols[Stmt.name] # None
  /\ try_int(Stmt.idx, lastOp.pre).ok
  /\ kind = "ListAssign" => evaluate(Stmt.exp, lastOp.pre).ok

\* The index, the binding and the list before the statement, and the list
\* after it.
IndexI == try_int(Stmt.idx, lastOp.pre).val.i
Target == lastOp.pre.symbols[Stmt.name]
Before == Target.l
After == cur.symbols[Stmt.name].l

\* Every binding but that of the statement's name, the pending return and the
\* libraries are as before the statement.
OthersKept ==
  /\ \A n \in Names \ {Stmt.name} : cur.symbols[n] = lastOp.pre.symbols[n]
  /\ cur.last_return = lastOp.pre.last_return
  /\ cur.libraries = lastOp.pre.libraries

\* ListAssign has overwritten element i in place: indexing name[i] yields the
\* value of v, the length and every other element and binding are unchanged.
Overwritten ==
  /\ ret = Ok
  /\ get_type(cur.symbols[Stmt.name]) = "List"
  /\ evaluate(Index(Stmt.name, Lit(IntV(IndexI))), cur) = evaluate(Stmt.exp, lastOp.pre)
  /\ Len(After) = Len(Before)
  /\ \A j \in 1..Len(Before) : j # IndexI + 1 => After[j] = Before[j]
  /\ OthersKept

\* C16, as claimed: ListAssign(name, i, v) on a List with i < length
\* overwrites element i in place; with i >= length it fails with
\* IndexOutOfBounds; on a binding that is not a List it fails with
\* IndexUnindexable.
C16_AssignBelowLength ==
  Indexed("ListAssign") =>
    IF get_type(Target) = "List"
    THEN /\ IndexI < Len(Before) => Overwritten
         /\ IndexI >= Len(Before) =>
              ret = Error(IndexOutOfBounds(Len(Before), FromNat(IndexI)), Stmt)
    ELSE ret = Error(IndexUnindexable(get_type(Target)), Stmt)

\* C16, amended: ListAssign(name, i, v) on a List with 0 <= i < length
\* overwrites element i in place; with i >= length it fails with
\* IndexOutOfBounds(length, i), and with i < 0 with IndexOutOfBounds carrying
\* the length and the index 2^64 + i; on a binding that is not a List it
\* fails with IndexUnindexable.
C16_AssignInRange ==
  Indexed("ListAssign") =>
    IF get_type(Target) = "List"
    THEN /\ (0 <= IndexI /\ IndexI < Len(Before)) => Overwritten
         /\ IndexI >= Len(Before) =>
              ret = Error(IndexOutOfBounds(Len(Before), FromNat(IndexI)), Stmt)
         /\ IndexI < 0 =>
              ret = Error(IndexOutOfBounds(Len(Before), Wrapped(IndexI)), Stmt)
    ELSE ret = Error(IndexUnindexable(get_type(Target)), Stmt)

\* ListAssign has replaced an element of a list by a different value.
C16_Witness ==
  /\ Indexed("ListAssign")
  /\ get_type(Target) = "List"
  /\ ret = Ok
  /\ IndexI + 1 \in 1..Len(Before)
  /\ After[IndexI + 1] # Before[IndexI + 1]

\* ------------------------------------------------------------------ C17
\* ListDelete has removed element i: the list is one shorter, the elements
\* before i are unchanged and those after it have moved down by one.
Removed ==
  /\ ret = Ok
  /\ get_type(cur.symbols[Stmt.name]) = "List"
  /\ Len(After) = Len(Before) - 1
  /\ \A j \in 1..Len(After) :
       After[j] = IF j < IndexI + 1 THEN Before[j] ELSE Before[j + 1]
  /\ OthersKept

\* The last step executed a ListDelete whose index expression has a value that
\* is not an integer.
NonIntegerIndex ==
  /\ lastOp.op = "exec"
  /\ lastOp.kind = "ListDelete"
  /\ evaluate(Stmt.idx, lastOp.pre).ok
  /\ get_type(evaluate(Stmt.idx, lastOp.pre).val) # "Int"

\* Such a ListDelete fails with UnexpectedType, whatever the name is bound to.
NonIntegerRejected ==
  NonIntegerIndex =>
    ret = Error(UnexpectedType("Int", get_type(evaluate(Stmt.idx, lastOp.pre).val)), Stmt)

\* C17, as claimed: ListDelete(name, i) on a List of length n with an integer
\* i < n removes element i; an index that is not an integer fails with
\* UnexpectedType, a binding that is not a List with IndexUnindexable, and
\* i >= n with IndexOutOfBounds carrying (n, i).
C17_DeleteBelowLength ==
  /\ NonIntegerRejected
  /\ Indexed("ListDelete") =>
       IF get_type(Target) = "List"
       THEN /\ IndexI < Len(Before) => Removed
            /\ IndexI >= Len(Before) =>
                 ret = Error(IndexOutOfBounds(Len(Before), FromNat(IndexI)), Stmt)
       ELSE ret = Error(IndexUnindexable(get_type(Target)), Stmt)

\* C17, amended: ListDelete(name, i) on a List of length n with an integer i,
\* 0 <= i < n, removes element i; an index that is not an integer fails with
\* UnexpectedType, a binding that is not a List with IndexUnindexable, i >= n
\* with IndexOutOfBounds carrying (n, i), and i < 0 with IndexOutOfBounds
\* carrying n and the index 2^64 + i.
C17_DeleteInRange ==
  /\ NonIntegerRejected
  /\ Indexed("ListDelete") =>
       IF get_type(Target) = "List"
       THEN /\ (0 <= IndexI /\ IndexI < Len(Before)) => Removed
            /\ IndexI >= Len(Before) =>
                 ret = Error(IndexOutOfBounds(Len(Before), FromNat(IndexI)), Stmt)
            /\ IndexI < 0 =>
                 ret = Error(IndexOutOfBounds(Len(Before), Wrapped(IndexI)), Stmt)
       ELSE ret = Error(IndexUnindexable(get_type(Target)), Stmt)

\* ListDelete has removed an element that was not the last of its list.
C17_Witness ==
  /\ Indexed("ListDelete")
  /\ get_type(Target) = "List"
  /\ ret = Ok
  /\ IndexI + 1 \in 1..(Len(Before) - 1)
  /\ Len(After) = Len(Before) - 1

\* ------------------------------------------------------------------ C18
\* The last step executed a ListAppend whose expression has a value.
Appending ==
  /\ lastOp.op = "exec"
  /\ lastOp.kind = "ListAppend"
  /\ evaluate(Stmt.exp, lastOp.pre).ok

\* C18: ListAppend(name, expr), expr having a value, on a List of length n
\* leaves a list of length n + 1 whose first n elements are unchanged and
\* whose last is the value of expr, every other binding unchanged; it fails
\* with UnknownVariable(name) when name is unbound and with IndexUnindexable
\* when name is bound to a value that is not a List.  ListNew(name) binds
\* name to the empty list, whatever it was bound to, and nothing else changes.
C18_AppendAndNew ==
  /\ Appending =>
       CASE get_type(Target) = "List" ->
              /\ ret = Ok
              /\ get_type(cur.symbols[Stmt.name]) = "List"
              /\ Len(After) = Len(Before) + 1
              /\ \A j \in 1..Len(Before) : After[j] = Before[j]
              /\ After[Len(After)] = evaluate(Stmt.exp, lastOp.pre).val
              /\ OthersKept
         [] Target = None -> ret = Error(UnknownVariable(Stmt.name), Stmt)
         [] OTHER -> ret = Error(IndexUnindexable(get_type(Target)), Stmt)
  /\ (lastOp.op = "exec" /\ lastOp.kind = "ListNew") =>
       /\ ret = Ok
       /\ cur.symbols[Stmt.name] = ListV(<< >>)
       /\ OthersKept

\* ListAppend has added to a list that was not empty a value that differs
\* from its first element.
C18_Witness ==
  /\ Appending
  /\ get_type(Target) = "List"
  /\ ret = Ok
  /\ Before # << >>
  /\ After[Len(After)] # Before[1]

\* ------------------------------------------------------------------ C19
\* A Return has executed in the current State inside the try_block of a Catch
\* of a While body, and that While has not returned yet.
ReturnedInTry ==
  /\ cur.tmark # None
  /\ \E d \in 1..Len(stack) : stack[d].f = "while"

\* The While has stopped on the pending return, without a test of its
\* condition, the pending return holding the value of the Return.
StoppedOnReturn ==
  /\ lastOp.op = "while_return"
  /\ lastOp.tmarked
  /\ ret = Ok
  /\ cur.last_return = cur.tmark

\* After such a Return every step of the State returns Ok from a frame: no
\* statement is executed, of the try_block, of the catch_block or of the While
\* body, no catch_block is begun and no condition is tested; and the pending
\* return holds the value of the Return.
NothingAfterReturnInTry ==
  /\ lastOp.tmarked =>
       /\ lastOp.op \notin {"exec", "retest"}
       /\ Len(stack) = lastOp.depth - 1
       /\ ret = Ok
  /\ \A d \in 1..Len(envs) :
       envs[d].tmark # None => envs[d].last_return = envs[d].tmark

\* C19: when a Return executes inside the try_block of a Catch that is a
\* statement of a While body, the try_block stops at the Return, the
\* catch_block is not executed, and the While stops without testing its
\* condition again, the pending return holding the value of the Return.
C19_ReturnInTryInWhile ==
  []NothingAfterReturnInTry /\ (ReturnedInTry ~> StoppedOnReturn)

\* A While has stopped on the Return of a try_block in which a statement
\* follows the Return, the While body having a statement after the Catch.
C19_Witness ==
  /\ StoppedOnReturn
  /\ lastOp.fr.f = "while"
  /\ Len(lastOp.fr.stmt.body) > 1
  /\ lastOp.fr.stmt.body[1].kind = "Catch"
  /\ Len(lastOp.fr.stmt.body[1].body) > 1
  /\ lastOp.fr.stmt.body[1].body[1].kind = "Return"

\* ------------------------------------------------------------------ C20
\* The last step executed one statement of a kind that changes the State
\* directly, and it returned an error.
FailedMutation ==
  /\ lastOp.op = "exec"
  /\ lastOp.kind \in {"Assignment", "Delete", "ListAppend", "ListAssign",
                      "ListDelete", "Return"}
  /\ ret.r = "err"

\* C20: an Assignment, Delete, ListAppend, ListAssign, ListDelete or Return
\* that returns an error leaves the State exactly as it was before it:
\* bindings, contents of lists, pending return, libraries; and a Delete of an
\* unbound name fails with UnknownVariable(name) and changes nothing.
C20_FailedStatementChangesNothing ==
  /\ FailedMutation =>
       /\ cur = lastOp.pre
       /\ Len(output) = lastOp.out
  /\ ( /\ lastOp.op = "exec"
       /\ lastOp.kind = "Delete"
       /\ lastOp.pre.symbols[Stmt.name] = None ) =>
       /\ ret = Error(UnknownVariable(Stmt.name), Stmt)
       /\ cur = lastOp.pre

\* An Assignment to a bound name has failed.
C20_Witness ==
  /\ FailedMutation
  /\ lastOp.kind = "Assignment"
  /\ lastOp.pre.symbols[Stmt.name] # None

\* ------------------------------------------------------------------ C21
\* No step resets last_return in a State that outlives the step.
PendingKept ==
  \A d \in 1..Len(envs) :
    (d <= Len(envs') /\ envs[d].last_return # None) => envs'[d].last_return # None

\* A call of run that began with last_return set has executed at most the
\* first statement of its sequence; and when it has returned, it returned
\* after that statement, statements of the sequence left unexecuted.
OnlyFirstExecuted ==
  lastOp.start.pending =>
    /\ envs[1].last_return # None
    /\ stack # << >> => Len(stack[1].done) <= 1
    /\ (stack = << >> /\ Len(lastOp.start.prog) > 0) =>
         /\ lastOp.op = "run_next"
         /\ lastOp.depth = 1
         /\ lastOp.fr.pc = 1
         /\ lastOp.left = Len(lastOp.start.prog) - 1
         /\ lastOp.in.r = "ok" => ret = Ok

\* C21: no statement executed in a State resets its last_return: once set it
\* stays set for as long as the State lives; and every later call of run on
\* that State executes only the first statement of its sequence and stops.
C21_PendingReturnSticks ==
  []OnlyFirstExecuted /\ [][PendingKept]_vars

\* A later call of run on a State with last_return set has returned Ok after
\* the first statement of a longer sequence.
C21_Witness ==
  /\ lastOp.start.pending
  /\ lastOp.start.runs > 1
  /\ stack = << >>
  /\ ret = Ok
  /\ lastOp.op = "run_next"
  /\ lastOp.left > 0

====
